---- MODULE Spec2Model ----
(***************************************************************************)
(* Model of src/experiment_builder.py.                                     *)
(* AnomalyDetectionExperiment.run_experiment: the streaming pass that      *)
(* assembles one anomaly map per image from sliding-window patches,        *)
(* finalizes it at an image boundary or at the end of the stream, and      *)
(* records the agreement with the label image.                             *)
(* ExperimentBuilder: construction (fresh or resumed from a checkpoint),   *)
(* the epochs of training and validation, the checkpoints, and the test    *)
(* evaluation with the best checkpoint.                                    *)
(*                                                                         *)
(* Tensors of shape 1 x h x w are records [h, w, v] with v a function on   *)
(* the pixels (row, column).  Scores are exact rationals <<n, d>>, d > 0,  *)
(* in lowest terms; <<0, 0>> is NaN.                                       *)
(***************************************************************************)
EXTENDS Integers, Sequences, FiniteSets, TLC

\* Number of patches the data loaders deliver in one run (both splits together).
MaxPatches == 3

(***************************************************************************)
(* Rational arithmetic (the float arithmetic of torch, kept exact).        *)
(***************************************************************************)
Abs(x) == IF x < 0 THEN -x ELSE x

RECURSIVE GCD(_, _)
GCD(a, b) == IF b = 0 THEN a ELSE GCD(b, a % b)

Rat(n, d) ==
  LET s == IF d < 0 THEN -1 ELSE 1
      g == GCD(Abs(n), Abs(d))
  IN  <<(s * n) \div g, (s * d) \div g>>

Zero == <<0, 1>>
One == <<1, 1>>
NaN == <<0, 0>>

RatAdd(a, b) == Rat(a[1] * b[2] + b[1] * a[2], a[2] * b[2])
RatSub(a, b) == Rat(a[1] * b[2] - b[1] * a[2], a[2] * b[2])
RatMul(a, b) == Rat(a[1] * b[1], a[2] * b[2])
RatDiv(a, b) == Rat(a[1] * b[2], a[2] * b[1])
RatLess(a, b) == a[1] * b[2] < b[1] * a[2]
RatMin(a, b) == IF RatLess(b, a) THEN b ELSE a
RatMax(a, b) == IF RatLess(a, b) THEN b ELSE a

RECURSIVE RatSum(_)
RatSum(s) == IF s = <<>> THEN Zero ELSE RatAdd(Head(s), RatSum(Tail(s)))

(***************************************************************************)
(* Tensors.                                                                *)
(***************************************************************************)
Pixels(h, w) == (0 .. h - 1) \X (0 .. w - 1)

Tensor(h, w, f(_)) == [h |-> h, w |-> w, v |-> [p \in Pixels(h, w) |-> f(p)]]

\* a name that is not bound yet (Python local before its first assignment)
Unbound == [h |-> 0 - 1, w |-> 0 - 1, v |-> [p \in {} |-> Zero]]

ZeroAt(p) == Zero
zeros(h, w) == Tensor(h, w, ZeroAt)

\* Python slice a:b on an axis of length n, as the half-open range <<start, stop>>
PyIndex(i, n) == IF i < 0 THEN (IF i + n < 0 THEN 0 ELSE i + n) ELSE (IF i > n THEN n ELSE i)
PySlice(a, b, n) ==
  LET s == PyIndex(a, n)
      e == PyIndex(b, n)
  IN  <<s, IF e > s THEN e ELSE s>>

\* t[:, a0:b0, a1:b1]
Sliced(t, a0, b0, a1, b1) ==
  LET rs == PySlice(a0, b0, t.h)
      cs == PySlice(a1, b1, t.w)
  IN  [h |-> rs[2] - rs[1], w |-> cs[2] - cs[1],
       v |-> [p \in Pixels(rs[2] - rs[1], cs[2] - cs[1]) |-> t.v[<<p[1] + rs[1], p[2] + cs[1]>>]]]

InSlice(p, s) == s.r0 <= p[1] /\ p[1] < s.r1 /\ s.c0 <= p[2] /\ p[2] < s.c1
Local(p, s) == <<p[1] - s.r0, p[2] - s.c0>>

(***************************************************************************)
(* The datasets and the data loaders' patches: the inputs of the run.      *)
(* Image indices are 0-based positions in image_list / image_sizes.        *)
(***************************************************************************)
val_image_list == <<"v0.png", "v1.png", "v2.png">>
test_image_list == <<"t0.png", "t1.png", "t2.png">>
image_list(which) == IF which = "val" THEN val_image_list ELSE test_image_list

\* image_sizes[idx] = (C, H, W) of the image as the model sees it
val_image_sizes == << <<1, 3, 3>>, <<1, 3, 3>>, <<1, 3, 3>> >>
test_image_sizes == << <<1, 3, 3>>, <<1, 3, 3>>, <<1, 3, 3>> >>
image_sizes(which) == IF which = "val" THEN val_image_sizes ELSE test_image_sizes

ImageIdxs == 0 .. Len(val_image_list) - 1

\* ground-truth segmentations at the model's resolution, one per image
\* (rows of 0/1); image 1 of val and image 0 of test hold a single class
val_labels ==
  << << <<0, 1, 0>>, <<0, 0, 1>>, <<1, 1, 0>> >>,
     << <<0, 0, 0>>, <<0, 0, 0>>, <<0, 0, 0>> >>,
     << <<1, 1, 0>>, <<0, 1, 1>>, <<0, 1, 0>> >> >>
test_labels ==
  << << <<1, 1, 1>>, <<1, 1, 1>>, <<1, 1, 1>> >>,
     << <<1, 0, 0>>, <<0, 1, 0>>, <<0, 0, 1>> >>,
     << <<0, 0, 1>>, <<1, 0, 0>>, <<0, 0, 0>> >> >>
labels(which) == IF which = "val" THEN val_labels ELSE test_labels

\* dataset.get_label_image(idx): the label at the native resolution.  When the
\* images were scaled for training (scale_image set) the native label is
\* twice as large as the image the patches were cut from.
get_label_image(which, scaled, idx) ==
  LET rows == labels(which)[(idx % Len(labels(which))) + 1]
      f == IF scaled THEN 2 ELSE 1
  IN  [h |-> f * Len(rows), w |-> f * Len(rows[1]),
       v |-> [p \in Pixels(f * Len(rows), f * Len(rows[1])) |->
                rows[(p[1] \div f) + 1][(p[2] \div f) + 1]]]

\* placement slices of the sliding window (slices["1_start"], ["1_stop"],
\* ["2_start"], ["2_stop"]): 2 x 2 windows at [0:2,0:2], [0:2,1:3], [1:3,0:2]
Slices ==
  << [r0 |-> 0, r1 |-> 2, c0 |-> 0, c1 |-> 2],
     [r0 |-> 0, r1 |-> 2, c0 |-> 1, c1 |-> 3],
     [r0 |-> 1, r1 |-> 3, c0 |-> 0, c1 |-> 2] >>

\* The per-pixel scores of the window of each image at each placement (rows of
\* the 2 x 2 tensor): in eval mode the network is a function of its input.
\* Image 0 scores its three windows 1, 2 and 3 throughout; pixel (1,1) of
\* image 1 receives 5, 2 and 8; image 2 carries negative values, which the
\* update rules accept like any other tensor.
WindowScores ==
  << << << <<1, 1>>, <<1, 1>> >>, << <<2, 2>>, <<2, 2>> >>, << <<3, 3>>, <<3, 3>> >> >>,
     << << <<3, 1>>, <<4, 5>> >>, << <<7, 0>>, <<2, 6>> >>, << <<1, 8>>, <<3, 4>> >> >>,
     << << <<0 - 1, 2>>, <<2, 0 - 3>> >>, << <<0 - 2, 1>>, <<0 - 1, 0>> >>,
        << <<1, 0 - 1>>, <<0 - 2, 2>> >> >> >>

\* one element of a batch: the split it was loaded for, its image index and
\* its placement
Patches(which) == [set : {which}, img : ImageIdxs, slice : DOMAIN Slices]
current_slice(patch) == Slices[patch.slice]

\* anomaly_maps_current_batch[batch_idx, :, :, :]; the test images are the
\* val images in another order
patch_scores(patch) ==
  LET i == IF patch.set = "val" THEN patch.img ELSE (patch.img + 1) % Len(WindowScores)
      rows == WindowScores[(i % Len(WindowScores)) + 1][patch.slice]
  IN  [p \in Pixels(Len(rows), Len(rows[1])) |-> <<rows[p[1] + 1][p[2] + 1], 1>>]

(***************************************************************************)
(* Configuration (args) and the datasets' image lists.  AD_margins is <<>> *)
(* for None.  A dataset lists the images still to be mapped: all of the    *)
(* split's images, or none.                                                *)
(***************************************************************************)
Methods == {"mean", "min", "max"}
Configs ==
  [window_aggregation_method : Methods,
   resize_anomaly_maps : BOOLEAN,
   AD_margins : {<<>>, <<0, 1>>},
   save_anomaly_maps : BOOLEAN,
   image_list : [val : {<<>>, val_image_list}, test : {<<>>, test_image_list}]]

AllListed(c) == c.image_list["val"] # <<>> /\ c.image_list["test"] # <<>>

\* aggregation runs: every method, plain finalization
AggConfigs ==
  {c \in Configs : /\ ~c.resize_anomaly_maps /\ c.AD_margins = <<>> /\ ~c.save_anomaly_maps
                   /\ AllListed(c)}

\* runs over datasets of which either may have nothing left to map
StartConfigs ==
  {c \in Configs : /\ ~c.resize_anomaly_maps /\ c.AD_margins = <<>> /\ ~c.save_anomaly_maps
                   /\ c.window_aggregation_method = "mean"}

\* finalization runs: resizing, margins and persistence in play
FinConfigs ==
  {c \in Configs :
     /\ AllListed(c)
     /\ \/ (c.window_aggregation_method = "mean" /\ c.AD_margins # <<>> /\ c.save_anomaly_maps)
        \/ (c.window_aggregation_method = "max" /\ c.AD_margins = <<>>
              /\ c.resize_anomaly_maps /\ c.save_anomaly_maps)
        \/ (c.window_aggregation_method = "min" /\ c.AD_margins # <<>>
              /\ ~c.resize_anomaly_maps /\ ~c.save_anomaly_maps)}

(***************************************************************************)
(* The per-patch update of the accumulators.                               *)
(***************************************************************************)
\* mutant of UpdateNormalisationMap: every pixel of the map is incremented
UpdateNormalisationMapEverywhere(nm, s) ==
  [nm EXCEPT !.v = [p \in DOMAIN nm.v |-> RatAdd(nm.v[p], One)]]

\* normalisation_map[current_slice] += 1
UpdateNormalisationMap(nm, s) ==
  [nm EXCEPT !.v = [p \in DOMAIN nm.v |->
                      IF InSlice(p, s) THEN RatAdd(nm.v[p], One) ELSE nm.v[p]]]

\* mutant of MeanUpdate: the patch overwrites the slice instead of adding to it
MeanUpdateOverwrite(old, patch_score) == patch_score

\* anomaly_map[current_slice] += patch
MeanUpdate(old, patch_score) == RatAdd(old, patch_score)

\* mutant of MinUpdate: no first-touch case, the zero of the fresh map takes part
MinUpdateNoFirstTouch(old, patch_score, count) == RatMin(old, patch_score)

\* first_time_pixels * patch + (1 - first_time_pixels) * min(anomaly_map, patch),
\* count being the entry of normalisation_map after its increment
MinUpdate(old, patch_score, count) ==
  LET first_time_pixels == IF count = One THEN One ELSE Zero
      min_current_and_aggregated_map == RatMin(old, patch_score)
  IN  RatAdd(RatMul(first_time_pixels, patch_score),
             RatMul(RatSub(One, first_time_pixels), min_current_and_aggregated_map))

\* mutant of MaxUpdate: the first score a pixel receives is kept
MaxUpdateKeepFirst(old, patch_score) == IF old = Zero THEN patch_score ELSE old

\* mutant of MaxUpdate: the patch overwrites the slice
MaxUpdateOverwrite(old, patch_score) == patch_score

\* anomaly_map[current_slice] = max(anomaly_map[current_slice], patch)
MaxUpdate(old, patch_score) == RatMax(old, patch_score)

\* the branch on window_aggregation_method; nm is normalisation_map after its increment
UpdateAnomalyMap(method, am, nm, s, scores) ==
  [am EXCEPT !.v = [p \in DOMAIN am.v |->
     IF ~InSlice(p, s) THEN am.v[p]
     ELSE IF method = "mean" THEN MeanUpdate(am.v[p], scores[Local(p, s)])
     ELSE IF method = "min" THEN MinUpdate(am.v[p], scores[Local(p, s)], nm.v[p])
     ELSE IF method = "max" THEN MaxUpdate(am.v[p], scores[Local(p, s)])
     ELSE am.v[p]]]

(***************************************************************************)
(* Finalization of one image.                                              *)
(***************************************************************************)
\* normalisation_map[normalisation_map == 0] = 1   (in place)
ZerosToOnes(nm) ==
  [nm EXCEPT !.v = [p \in DOMAIN nm.v |-> IF nm.v[p] = Zero THEN One ELSE nm.v[p]]]

\* mutant of normalise_anomaly_map: the sums are returned undivided
normalise_without_division(am, nm) == am

\* the value normalise_anomaly_map returns
normalise_anomaly_map(am, nm) ==
  [am EXCEPT !.v = [p \in DOMAIN am.v |-> RatDiv(am.v[p], ZerosToOnes(nm).v[p])]]

\* nn.functional.interpolate(t, size=(h, w)), default mode 'nearest'
interpolate(t, h, w) ==
  [h |-> h, w |-> w,
   v |-> [p \in Pixels(h, w) |-> t.v[<<(p[1] * t.h) \div h, (p[2] * t.w) \div w>>]]]

\* mutant of CropMargins: the two margins applied to the wrong axes
CropMarginsSwapped(t, margins, shape_h, shape_w) ==
  Sliced(t, margins[2], shape_h - margins[2], margins[1], shape_w - margins[1])

\* t[slice_considered_for_AD], the slice being built from the shape of the anomaly map
CropMargins(t, margins, shape_h, shape_w) ==
  Sliced(t, margins[1], shape_h - margins[1], margins[2], shape_w - margins[2])

\* misc_utils.get_aucroc(y_true, output): NaN when the label holds one class,
\* else the area under the ROC curve (ties count one half)
get_aucroc(label, map) ==
  LET pos == {p \in DOMAIN label.v : label.v[p] = 1}
      neg == {p \in DOMAIN label.v : label.v[p] # 1}
      min_is_one == \A p \in DOMAIN label.v : label.v[p] >= 1
      max_is_zero == \A p \in DOMAIN label.v : label.v[p] <= 0
      wins == Cardinality({pn \in pos \X neg : RatLess(map.v[pn[2]], map.v[pn[1]])})
      ties == Cardinality({pn \in pos \X neg : map.v[pn[2]] = map.v[pn[1]]})
  IN  IF min_is_one \/ max_is_zero THEN NaN
      ELSE Rat(2 * wins + ties, 2 * Cardinality(pos) * Cardinality(neg))

\* mutant of FinalizeImage: the map is saved after the margin crop
FinalizeImageSaveCropped(c, which, am, nm, k) ==
  LET normalised == IF c.window_aggregation_method = "mean"
                    THEN normalise_anomaly_map(am, nm) ELSE am
      label_image == get_label_image(which, c.resize_anomaly_maps, k)
      resized == IF c.resize_anomaly_maps
                 THEN interpolate(normalised, label_image.h, label_image.w)
                 ELSE normalised
      cropped == IF c.AD_margins # <<>>
                 THEN CropMargins(resized, c.AD_margins, resized.h, resized.w)
                 ELSE resized
      saved == IF c.save_anomaly_maps THEN cropped ELSE Unbound
      label_cropped == IF c.AD_margins # <<>>
                       THEN CropMargins(label_image, c.AD_margins, resized.h, resized.w)
                       ELSE label_image
  IN  [label_idx |-> k,
       normalised |-> normalised,
       resized |-> resized,
       saved |-> saved,
       file |-> c.image_list[which][k + 1],
       anomaly_map |-> cropped,
       label_eval |-> label_cropped,
       aucroc |-> get_aucroc(label_cropped, cropped)]

\* The finalization block (identical at an image boundary and after the loop):
\* normalise, fetch the label, resize, save, crop, evaluate.  k is the index
\* used for the label and for the file name.
FinalizeImage(c, which, am, nm, k) ==
  LET normalised == IF c.window_aggregation_method = "mean"
                    THEN normalise_anomaly_map(am, nm) ELSE am
      label_image == get_label_image(which, c.resize_anomaly_maps, k)
      resized == IF c.resize_anomaly_maps
                 THEN interpolate(normalised, label_image.h, label_image.w)
                 ELSE normalised
      saved == IF c.save_anomaly_maps THEN resized ELSE Unbound
      cropped == IF c.AD_margins # <<>>
                 THEN CropMargins(resized, c.AD_margins, resized.h, resized.w)
                 ELSE resized
      label_cropped == IF c.AD_margins # <<>>
                       THEN CropMargins(label_image, c.AD_margins, resized.h, resized.w)
                       ELSE label_image
  IN  [label_idx |-> k,
       normalised |-> normalised,
       resized |-> resized,
       saved |-> saved,
       file |-> c.image_list[which][k + 1],
       anomaly_map |-> cropped,
       label_eval |-> label_cropped,
       aucroc |-> get_aucroc(label_cropped, cropped)]

\* the mean printed after a split: sum(non-NaN) / len(non-NaN)
IsNotNaN(x) == x # NaN
list_of_non_nan_values(list_of_values) == SelectSeq(list_of_values, IsNotNaN)

\* mutant of mean_value: undefined entries count in the denominator (as zeros)
mean_value_counting_nan(list_of_values) ==
  RatDiv(RatSum(list_of_non_nan_values(list_of_values)), <<Len(list_of_values), 1>>)

mean_value(list_of_values) ==
  RatDiv(RatSum(list_of_non_nan_values(list_of_values)),
         <<Len(list_of_non_nan_values(list_of_values)), 1>>)

(***************************************************************************)
(* State of one call of run_experiment.                                    *)
(***************************************************************************)
VARIABLES
  cfg,                  \* the configuration read in __init__
  pc,                   \* "running", "done", or the exception that ended the run
  which_set,            \* the split of the outer loop
  num_finished_images,
  current_image_idx,    \* -1 while unbound
  anomaly_map,
  normalisation_map,
  stats_dict,           \* self.stats_dict["aucroc"]
  anomaly_map_files,    \* files written by torch.save: [dir, file, map]
  stats_rows,           \* the calls of save_statistics
  printed_means,        \* the mean printed for each split
  stream,               \* history: the patches delivered so far, per split
  accumulated,          \* history: the patches added to the present accumulators
  finalized,            \* history: one record per execution of the finalization block
  batch,                \* the patches of the loaded batch that are still to be iterated
  batches               \* history: the sizes of the batches loaded so far, per split

ad_vars == <<cfg, pc, which_set, num_finished_images, current_image_idx, anomaly_map,
             normalisation_map, stats_dict, anomaly_map_files, stats_rows, printed_means,
             stream, accumulated, finalized, batch, batches>>

(***************************************************************************)
(* ExperimentBuilder: the training run that produces the checkpoints.      *)
(* A Python dict with a fixed set of possible keys is a record of all the  *)
(* keys together with the set of those that are present.                   *)
(***************************************************************************)
VARIABLES
  eb_pc,                   \* position of the run, or the exception that ended it
  run,                     \* "none", "first", "resumed": which construction this is
  args,                    \* task, loss, num_epochs, continue_from_epoch
  network,                 \* self.state_dict(): the epochs the parameters were trained in
  best_val_model_idx,
  best_val_model_measure,
  state,                   \* self.state
  starting_epoch,
  epoch_idx,               \* the loop variable of run_experiment
  train_iters,             \* training batches consumed in this epoch
  val_loss,                \* current_epoch_losses["val_loss"]
  test_loss,               \* current_epoch_losses["test_loss"]
  saved_models,            \* the files of experiment_saved_models
  stats_calls,             \* the calls of save_statistics of this run
  start_measure,           \* history: best_val_model_measure when run_experiment began
  start_idx,               \* history: best_val_model_idx when run_experiment began
  val_means,               \* history: <<epoch, mean validation loss>> of the epochs of this run
  test_passes,             \* history: the parameters each test batch was evaluated with
  validated                \* history: per checkpoint file, the mean validation loss
                           \* measured with the parameters it holds

eb_vars == <<eb_pc, run, args, network, best_val_model_idx, best_val_model_measure, state,
             starting_epoch, epoch_idx, train_iters, val_loss, test_loss, saved_models,
             stats_calls, start_measure, start_idx, val_means, test_passes, validated>>

vars == <<ad_vars, eb_vars>>

\* Epochs a run may be configured with.
MaxEpochs == 2

\* self.best_val_model_measure = 1000000000
InitialMeasure == 1000000000

\* dict()
EmptyDict ==
  [keys |-> {}, network |-> <<>>, current_epoch_idx |-> 0 - 1,
   best_val_model_idx |-> 0 - 1, best_val_model_measure |-> NaN]

NoArgs == [task |-> "", loss |-> "", num_epochs |-> 0, continue_from_epoch |-> 0 - 1]

\* before ExperimentBuilder(...) is called; the results folder does not exist yet
NotConstructed ==
  /\ eb_pc = "NotConstructed"
  /\ run = "none"
  /\ args = NoArgs
  /\ network = <<>>
  /\ best_val_model_idx = 0 - 1
  /\ best_val_model_measure = NaN
  /\ state = EmptyDict
  /\ starting_epoch = 0 - 1
  /\ epoch_idx = 0 - 1
  /\ train_iters = 0
  /\ val_loss = <<>>
  /\ test_loss = <<>>
  /\ saved_models = {}
  /\ stats_calls = <<>>
  /\ start_measure = NaN
  /\ start_idx = 0 - 1
  /\ val_means = <<>>
  /\ test_passes = <<>>
  /\ validated = {}

InitWith(c) ==
  /\ cfg = c
  /\ pc = "NotStarted"
  /\ which_set = "val"
  /\ num_finished_images = 0 - 1
  /\ current_image_idx = 0 - 1
  /\ anomaly_map = Unbound
  /\ normalisation_map = Unbound
  /\ stats_dict = <<>>
  /\ anomaly_map_files = {}
  /\ stats_rows = <<>>
  /\ printed_means = [s \in {"val", "test"} |-> <<>>]
  /\ stream = [s \in {"val", "test"} |-> <<>>]
  /\ accumulated = <<>>
  /\ finalized = <<>>
  /\ batch = <<>>
  /\ batches = [s \in {"val", "test"} |-> <<>>]

Init == (\E c \in AggConfigs : InitWith(c)) /\ NotConstructed
InitFin == (\E c \in FinConfigs : InitWith(c)) /\ NotConstructed
InitStart == (\E c \in StartConfigs : InitWith(c)) /\ NotConstructed

PatchesDelivered == Len(stream["val"]) + Len(stream["test"])

\* torch.save(map, os.path.join(dir, file)) replaces the file of that name
WriteFile(files, dir, file, map) ==
  {f \in files : ~(f.dir = dir /\ f.file = file)} \cup {[dir |-> dir, file |-> file, map |-> map]}

\* the effects of one execution of the finalization block on the files, the
\* statistics list and the statistics table; row is save_statistics' current_epoch
FilesAfter(fin) ==
  IF cfg.save_anomaly_maps
  THEN WriteFile(anomaly_map_files, which_set, fin.file, fin.saved)
  ELSE anomaly_map_files
StatsAfter(fin) == Append(stats_dict, fin.aucroc)
RowsAfter(fin, row) ==
  Append(stats_rows, [filename |-> which_set, current_epoch |-> row,
                      stats_dict |-> StatsAfter(fin)])
Finalized(fin, at, row, delivered) ==
  Append(finalized, [which_set |-> which_set, at |-> at, patches |-> accumulated,
                     delivered |-> delivered, row |-> row, position |-> Len(stats_dict),
                     fin |-> fin])

\* the index the new-image branch leaves in num_finished_images
NextNumFinished(n) == n + 1

(***************************************************************************)
(* run_experiment is called: the head of the first iteration of the loop   *)
(* over the splits (lines 430-451).  With nothing listed the method        *)
(* returns.                                                                *)
(***************************************************************************)
StartSkippingEmptySplit ==
  /\ pc = "NotStarted"
  /\ num_finished_images' = 0 - 1
  /\ stats_dict' = <<>>
  /\ which_set' = IF Len(cfg.image_list["val"]) = 0 THEN "test" ELSE "val"
  /\ pc' = IF Len(cfg.image_list[which_set']) = 0 THEN "done" ELSE "running"
  /\ UNCHANGED <<cfg, current_image_idx, anomaly_map, normalisation_map, anomaly_map_files,
                 stats_rows, printed_means, stream, accumulated, finalized, batch,
                 batches>>
  /\ UNCHANGED eb_vars

Start ==
  /\ pc = "NotStarted"
  /\ which_set' = "val"
  /\ num_finished_images' = 0 - 1
  /\ stats_dict' = <<>>
  /\ pc' = IF Len(cfg.image_list["val"]) = 0 THEN "done" ELSE "running"
  /\ UNCHANGED <<cfg, current_image_idx, anomaly_map, normalisation_map, anomaly_map_files,
                 stats_rows, printed_means, stream, accumulated, finalized, batch,
                 batches>>
  /\ UNCHANGED eb_vars

(***************************************************************************)
(* One iteration of the loop over the patches of a batch (lines 459-527).  *)
(* The patch is the next one of the loaded batch; a patch delivered with   *)
(* no batch loaded is a batch of one.                                      *)
(***************************************************************************)
ProcessPatch(patch) ==
  /\ pc = "running"
  /\ PatchesDelivered < MaxPatches
  /\ batch' = IF batch = <<>> THEN batch ELSE Tail(batch)
  /\ batches' = IF batch = <<>> THEN [batches EXCEPT ![which_set] = Append(@, 1)]
                ELSE batches
  /\ stream' = [stream EXCEPT ![which_set] = Append(@, patch)]
  /\ current_image_idx' = patch.img
  /\ IF ~(num_finished_images <= patch.img)
     THEN /\ pc' = "AssertionError"
          /\ UNCHANGED <<cfg, which_set, num_finished_images, anomaly_map, normalisation_map,
                         stats_dict, anomaly_map_files, stats_rows, printed_means,
                         accumulated, finalized>>
     ELSE LET new_image == patch.img > num_finished_images
              n == IF new_image THEN NextNumFinished(num_finished_images)
                   ELSE num_finished_images
              finish == new_image /\ n > 0
              size == image_sizes(which_set)[patch.img + 1]
              am0 == IF new_image THEN zeros(size[2], size[3]) ELSE anomaly_map
              nm0 == IF new_image THEN zeros(size[2], size[3]) ELSE normalisation_map
              nm1 == UpdateNormalisationMap(nm0, current_slice(patch))
          IN  /\ num_finished_images' = n
              /\ normalisation_map' = nm1
              /\ anomaly_map' = UpdateAnomalyMap(cfg.window_aggregation_method, am0, nm1,
                                                 current_slice(patch), patch_scores(patch))
              /\ accumulated' = IF new_image THEN <<patch>> ELSE Append(accumulated, patch)
              /\ IF finish
                 THEN \E fin \in {FinalizeImage(cfg, which_set, anomaly_map,
                                                normalisation_map, patch.img - 1)} :
                      /\ anomaly_map_files' = FilesAfter(fin)
                      /\ stats_dict' = StatsAfter(fin)
                      /\ stats_rows' = RowsAfter(fin, patch.img - 1)
                      /\ finalized' = Finalized(fin, "boundary", patch.img - 1,
                                              Len(stream[which_set]) + 1)
                 ELSE UNCHANGED <<anomaly_map_files, stats_dict, stats_rows, finalized>>
              /\ UNCHANGED <<cfg, pc, which_set, printed_means>>
  /\ UNCHANGED eb_vars

(***************************************************************************)
(* The data loader is exhausted: finalization of the last image, the       *)
(* printed mean, and the head of the next iteration of the loop over the   *)
(* splits (lines 533-574 and 433-448).                                     *)
(***************************************************************************)
EndOfStream ==
  /\ pc = "running"
  /\ batch = <<>>
  /\ Len(stream[which_set]) > 0
  /\ \E fin \in {FinalizeImage(cfg, which_set, anomaly_map, normalisation_map,
                               current_image_idx)} :
         /\ anomaly_map' = fin.anomaly_map
         /\ normalisation_map' = IF cfg.window_aggregation_method = "mean"
                                 THEN ZerosToOnes(normalisation_map)
                                 ELSE normalisation_map
         /\ anomaly_map_files' = FilesAfter(fin)
         /\ stats_rows' = RowsAfter(fin, current_image_idx)
         /\ finalized' = Finalized(fin, "end", current_image_idx, Len(stream[which_set]))
         /\ IF list_of_non_nan_values(StatsAfter(fin)) = <<>>
            THEN /\ pc' = "ZeroDivisionError"
                 /\ stats_dict' = StatsAfter(fin)
                 /\ UNCHANGED <<which_set, num_finished_images, printed_means>>
            ELSE /\ printed_means' =
                      [printed_means EXCEPT ![which_set] = <<mean_value(StatsAfter(fin))>>]
                 /\ IF which_set = "val"
                    THEN /\ which_set' = "test"
                         /\ num_finished_images' = 0 - 1
                         /\ stats_dict' = <<>>
                         /\ pc' = IF Len(cfg.image_list["test"]) = 0 THEN "done" ELSE pc
                    ELSE /\ pc' = "done"
                         /\ stats_dict' = StatsAfter(fin)
                         /\ UNCHANGED <<which_set, num_finished_images>>
  /\ UNCHANGED <<cfg, current_image_idx, stream, accumulated, batch, batches>>
  /\ UNCHANGED eb_vars

Next ==
  \/ Start
  \/ \E patch \in Patches(which_set) : ProcessPatch(patch)
  \/ EndOfStream

Spec == Init /\ [][Next]_vars
SpecFin == InitFin /\ [][Next]_vars
SpecStart == InitStart /\ [][Next]_vars

(***************************************************************************)
(* The data loader delivers the patches in batches (lines 454-459): the    *)
(* loop over the loader takes a batch, and the loop over the batch handles *)
(* its patches in their order.  Everything the patch loop reads and writes *)
(* lives outside both loops.                                               *)
(***************************************************************************)
BatchSizes == {1, 2}

\* the loader's patches in the batched runs: two images, two overlapping
\* placements each
BatchPatches(which) == {p \in Patches(which) : p.img \in {0, 1} /\ p.slice \in {1, 2}}
Batches(which) == UNION {[1 .. n -> BatchPatches(which)] : n \in BatchSizes}

\* mutant of LoadBatch: the image counter starts afresh with every batch
LoadBatchResettingCounter(b) ==
  /\ pc = "running"
  /\ batch = <<>>
  /\ PatchesDelivered + Len(b) <= MaxPatches
  /\ batch' = b
  /\ batches' = [batches EXCEPT ![which_set] = Append(@, Len(b))]
  /\ num_finished_images' = 0 - 1
  /\ UNCHANGED <<cfg, pc, which_set, current_image_idx, anomaly_map,
                 normalisation_map, stats_dict, anomaly_map_files, stats_rows, printed_means,
                 stream, accumulated, finalized>>
  /\ UNCHANGED eb_vars

LoadBatch(b) ==
  /\ pc = "running"
  /\ batch = <<>>
  /\ PatchesDelivered + Len(b) <= MaxPatches
  /\ batch' = b
  /\ batches' = [batches EXCEPT ![which_set] = Append(@, Len(b))]
  /\ UNCHANGED <<cfg, pc, which_set, num_finished_images, current_image_idx, anomaly_map,
                 normalisation_map, stats_dict, anomaly_map_files, stats_rows, printed_means,
                 stream, accumulated, finalized>>
  /\ UNCHANGED eb_vars

NextInBatch == batch # <<>> /\ ProcessPatch(Head(batch))

NextBatch ==
  \/ Start
  \/ \E b \in Batches(which_set) : LoadBatch(b)
  \/ NextInBatch
  \/ EndOfStream

SpecBatch == Init /\ [][NextBatch]_vars

(***************************************************************************)
(* ExperimentBuilder (lines 15-367): data, arguments, checkpoint files.    *)
(***************************************************************************)
\* the batches of the three data providers
train_data == <<"train 0">>
val_data == <<"val 0", "val 1">>
test_data == <<"test 0">>

Tasks == {"classification", "regression"}
LossNames == {"cross_entropy", "L2"}
\* the loss forward_prop_and_loss computes on a batch
Losses == {<<1, 1>>, <<2, 1>>}
\* from scratch (-1), from the latest checkpoint (-2), from the checkpoint of an epoch
ContinueFrom == {0 - 2, 0 - 1} \cup (0 .. MaxEpochs - 1)
EBArgs ==
  [task : Tasks, loss : LossNames, num_epochs : 1 .. MaxEpochs,
   continue_from_epoch : ContinueFrom]

\* the task / loss pairs for which forward_prop_and_loss binds loss
LossBound(a) ==
  \/ a.task = "classification" /\ a.loss = "cross_entropy"
  \/ a.task = "regression" /\ a.loss = "L2"

\* "{}_{}".format(model_save_name, str(model_idx)); model_idx already str()-ed
FileName(model_save_name, model_idx) == model_save_name \o "_" \o model_idx

Exists(files, name) == \E f \in files : f.name = name
\* torch.load
Read(files, name) == (CHOOSE f \in files : f.name = name).content
\* torch.save
Write(files, name, content) ==
  {f \in files : f.name # name} \cup {[name |-> name, content |-> content]}
\* os.replace(src, dst): dst takes the content, src is gone
Replace(files, src, dst) ==
  {f \in files : f.name # src /\ f.name # dst}
    \cup {[name |-> dst, content |-> Read(files, src)]}

\* state['network'] = self.state_dict()
StateWithNetwork(st, net) ==
  [st EXCEPT !.keys = @ \cup {"network"}, !.network = net]

\* mutant of save_model: the dict is stored without refreshing its parameters
save_model_stale_network(files, model_save_name, model_idx, st, net) ==
  Write(files, FileName(model_save_name, model_idx), st)

\* the files after save_model
save_model(files, model_save_name, model_idx, st, net) ==
  Write(files, FileName(model_save_name, model_idx), StateWithNetwork(st, net))

\* mutant of load_model: the stored parameters are not loaded into the model
load_model_keeping_parameters(files, model_save_name, model_idx, net) ==
  LET st == Read(files, FileName(model_save_name, model_idx))
  IN  [best_val_model_idx |-> st.best_val_model_idx,
       best_val_model_measure |-> st.best_val_model_measure,
       state |-> st,
       network |-> net]

\* what load_model returns, and the parameters load_state_dict leaves in the
\* model (net: the parameters before the call)
load_model(files, model_save_name, model_idx, net) ==
  LET st == Read(files, FileName(model_save_name, model_idx))
  IN  [best_val_model_idx |-> st.best_val_model_idx,
       best_val_model_measure |-> st.best_val_model_measure,
       state |-> st,
       network |-> st.network]

\* np.mean of a list of losses
np_mean(list) == IF list = <<>> THEN NaN ELSE RatDiv(RatSum(list), <<Len(list), 1>>)

\* mutant of update_best_epoch_measure: an equal loss also replaces the best
update_best_epoch_measure_on_ties(task, losses, epoch, idx, measure) ==
  IF ~RatLess(measure, np_mean(losses)) /\ np_mean(losses) # NaN
  THEN [idx |-> epoch, measure |-> np_mean(losses)]
  ELSE [idx |-> idx, measure |-> measure]

\* best_val_model_idx and best_val_model_measure after update_best_epoch_measure
update_best_epoch_measure(task, losses, epoch, idx, measure) ==
  LET val_mean_performance_measure == np_mean(losses)
  IN  IF task = "classification"
      THEN IF RatLess(val_mean_performance_measure, measure)
           THEN [idx |-> epoch, measure |-> val_mean_performance_measure]
           ELSE [idx |-> idx, measure |-> measure]
      ELSE IF task = "regression"
      THEN IF RatLess(val_mean_performance_measure, measure)
           THEN [idx |-> epoch, measure |-> val_mean_performance_measure]
           ELSE [idx |-> idx, measure |-> measure]
      ELSE [idx |-> idx, measure |-> measure]

(***************************************************************************)
(* ExperimentBuilder.__init__ (lines 16-99).  The first construction finds *)
(* no results folder; a later one, for the same experiment, finds the      *)
(* files the run before it left when it ended or was stopped between two   *)
(* epochs.                                                                 *)
(***************************************************************************)
\* mutant of raises: the load of the latest checkpoint is not guarded either
raises_for_latest_too(a, files) ==
  /\ a.continue_from_epoch # 0 - 1
  /\ ~Exists(files, FileName("train_model",
                IF a.continue_from_epoch = 0 - 2 THEN "latest"
                ELSE ToString(a.continue_from_epoch)))

\* mutant of raises: every failed load is recovered from
raises_never(a, files) == FALSE

\* lines 79-99: the load of 'latest' sits in a try / except, the load of an
\* explicit epoch does not
raises(a, files) ==
  /\ a.continue_from_epoch # 0 - 2
  /\ a.continue_from_epoch # 0 - 1
  /\ ~Exists(files, FileName("train_model", ToString(a.continue_from_epoch)))

Ended ==
  {"Done", "FileNotFoundError in __init__", "FileNotFoundError in run_experiment",
   "UnboundLocalError"}
BetweenEpochs == eb_pc = "train" /\ train_iters = 0 /\ epoch_idx > starting_epoch

Construct(a) ==
  /\ \/ eb_pc = "NotConstructed" /\ run = "none" /\ run' = "first"
     \/ /\ run = "first" /\ (eb_pc \in Ended \/ BetweenEpochs)
        /\ a.task = args.task /\ a.loss = args.loss
        /\ run' = "resumed"
  /\ args' = a
  /\ LET fresh == [best_val_model_idx |-> 0,
                   best_val_model_measure |-> <<InitialMeasure, 1>>,
                   state |-> EmptyDict,
                   network |-> <<>>]
         tag == IF a.continue_from_epoch = 0 - 2 THEN "latest"
                ELSE ToString(a.continue_from_epoch)
         found == Exists(saved_models, FileName("train_model", tag))
         loaded == load_model(saved_models, "train_model", tag, fresh.network)
         resume == a.continue_from_epoch # 0 - 1
         raised == raises(a, saved_models)
         now == IF resume /\ found THEN loaded ELSE fresh
     IN  /\ IF raised
            THEN /\ eb_pc' = "FileNotFoundError in __init__"
                 /\ state' = EmptyDict
                 /\ starting_epoch' = 0 - 1
                 /\ best_val_model_idx' = fresh.best_val_model_idx
                 /\ best_val_model_measure' = fresh.best_val_model_measure
                 /\ network' = fresh.network
                 /\ start_idx' = fresh.best_val_model_idx
                 /\ start_measure' = fresh.best_val_model_measure
            ELSE /\ eb_pc' = "NotStarted"
                 /\ best_val_model_idx' = now.best_val_model_idx
                 /\ best_val_model_measure' = now.best_val_model_measure
                 /\ network' = now.network
                 /\ start_idx' = now.best_val_model_idx
                 /\ start_measure' = now.best_val_model_measure
                 /\ state' = now.state
                 /\ starting_epoch' = IF resume /\ found THEN now.state.current_epoch_idx
                                      ELSE 0
  /\ epoch_idx' = 0 - 1
  /\ train_iters' = 0
  /\ val_loss' = <<>>
  /\ test_loss' = <<>>
  /\ stats_calls' = <<>>
  /\ val_means' = <<>>
  /\ test_passes' = <<>>
  /\ UNCHANGED saved_models
  /\ UNCHANGED validated
  /\ UNCHANGED ad_vars

(***************************************************************************)
(* ExperimentBuilder.run_experiment (lines 224-340).                       *)
(***************************************************************************)
\* mutant of RunExperiment: the loop over the epochs is skipped
RunExperimentWithoutEpochs ==
  /\ eb_pc = "NotStarted"
  /\ eb_pc' = "load_best"
  /\ UNCHANGED <<run, args, network, best_val_model_idx, best_val_model_measure, state,
                 starting_epoch, epoch_idx, train_iters, val_loss, test_loss, saved_models,
                 stats_calls, start_measure, start_idx, val_means, test_passes>>
  /\ UNCHANGED validated
  /\ UNCHANGED ad_vars

\* entry, and the head of the loop over range(starting_epoch, num_epochs)
RunExperiment ==
  /\ eb_pc = "NotStarted"
  /\ IF starting_epoch < args.num_epochs
     THEN eb_pc' = "train" /\ epoch_idx' = starting_epoch
     ELSE eb_pc' = "load_best" /\ UNCHANGED epoch_idx
  /\ UNCHANGED <<run, args, network, best_val_model_idx, best_val_model_measure, state,
                 starting_epoch, train_iters, val_loss, test_loss, saved_models,
                 stats_calls, start_measure, start_idx, val_means, test_passes>>
  /\ UNCHANGED validated
  /\ UNCHANGED ad_vars

\* one batch of the training set: run_train_iter
TrainIter ==
  /\ eb_pc = "train"
  /\ train_iters < Len(train_data)
  /\ IF LossBound(args)
     THEN /\ network' = Append(network, epoch_idx)
          /\ train_iters' = train_iters + 1
          /\ eb_pc' = IF train_iters + 1 = Len(train_data) THEN "val" ELSE "train"
     ELSE /\ eb_pc' = "UnboundLocalError"
          /\ UNCHANGED <<network, train_iters>>
  /\ UNCHANGED <<run, args, best_val_model_idx, best_val_model_measure, state,
                 starting_epoch, epoch_idx, val_loss, test_loss, saved_models,
                 stats_calls, start_measure, start_idx, val_means, test_passes>>
  /\ UNCHANGED validated
  /\ UNCHANGED ad_vars

\* one batch of the validation set: run_evaluation_iter
ValIter(loss) ==
  /\ eb_pc = "val"
  /\ Len(val_loss) < Len(val_data)
  /\ IF LossBound(args)
     THEN /\ val_loss' = Append(val_loss, loss)
          /\ eb_pc' = IF Len(val_loss) + 1 = Len(val_data) THEN "epoch_end" ELSE "val"
     ELSE /\ eb_pc' = "UnboundLocalError"
          /\ UNCHANGED val_loss
  /\ UNCHANGED <<run, args, network, best_val_model_idx, best_val_model_measure, state,
                 starting_epoch, epoch_idx, train_iters, test_loss, saved_models,
                 stats_calls, start_measure, start_idx, val_means, test_passes>>
  /\ UNCHANGED validated
  /\ UNCHANGED ad_vars

\* lines 275-303: best epoch, statistics, the two checkpoints, next epoch
EndEpoch ==
  /\ eb_pc = "epoch_end"
  /\ \E b \in {update_best_epoch_measure(args.task, val_loss, epoch_idx,
                                         best_val_model_idx, best_val_model_measure)} :
       LET st == [state EXCEPT
                    !.keys = @ \cup {"current_epoch_idx", "best_val_model_measure",
                                     "best_val_model_idx"},
                    !.current_epoch_idx = epoch_idx,
                    !.best_val_model_measure = b.measure,
                    !.best_val_model_idx = b.idx]
           files == save_model(saved_models, "train_model", ToString(epoch_idx), st, network)
       IN  /\ best_val_model_idx' = b.idx
           /\ best_val_model_measure' = b.measure
           /\ state' = StateWithNetwork(st, network)
           /\ saved_models' = save_model(files, "train_model", "latest",
                                         StateWithNetwork(st, network), network)
  /\ stats_calls' = Append(stats_calls,
       [filename |-> "summary.csv", current_epoch |-> epoch_idx - starting_epoch,
        continue_from_mode |-> (starting_epoch # 0 \/ epoch_idx - starting_epoch > 0)])
  /\ val_means' = Append(val_means, <<epoch_idx, np_mean(val_loss)>>)
  /\ validated' = Write(Write(validated, FileName("train_model", ToString(epoch_idx)),
                              np_mean(val_loss)),
                        FileName("train_model", "latest"), np_mean(val_loss))
  /\ IF epoch_idx + 1 < args.num_epochs
     THEN /\ eb_pc' = "train"
          /\ epoch_idx' = epoch_idx + 1
          /\ train_iters' = 0
          /\ val_loss' = <<>>
     ELSE /\ eb_pc' = "load_best"
          /\ UNCHANGED <<epoch_idx, train_iters, val_loss>>
  /\ UNCHANGED <<run, args, network, starting_epoch, test_loss, start_measure, start_idx,
                 test_passes>>
  /\ UNCHANGED ad_vars

\* lines 306-313: load the best validation model
LoadBest ==
  /\ eb_pc = "load_best"
  /\ IF Exists(saved_models, FileName("train_model", ToString(best_val_model_idx)))
     THEN /\ network' = load_model(saved_models, "train_model",
                                   ToString(best_val_model_idx), network).network
          /\ eb_pc' = "test"
     ELSE /\ eb_pc' = "FileNotFoundError in run_experiment"
          /\ UNCHANGED network
  /\ UNCHANGED <<run, args, best_val_model_idx, best_val_model_measure, state,
                 starting_epoch, epoch_idx, train_iters, val_loss, test_loss, saved_models,
                 stats_calls, start_measure, start_idx, val_means, test_passes>>
  /\ UNCHANGED validated
  /\ UNCHANGED ad_vars

\* one batch of the test set: run_evaluation_iter
TestIter(loss) ==
  /\ eb_pc = "test"
  /\ Len(test_loss) < Len(test_data)
  /\ IF LossBound(args)
     THEN /\ test_loss' = Append(test_loss, loss)
          /\ test_passes' = Append(test_passes, network)
          /\ eb_pc' = IF Len(test_loss) + 1 = Len(test_data) THEN "test_end" ELSE "test"
     ELSE /\ eb_pc' = "UnboundLocalError"
          /\ UNCHANGED <<test_loss, test_passes>>
  /\ UNCHANGED <<run, args, network, best_val_model_idx, best_val_model_measure, state,
                 starting_epoch, epoch_idx, train_iters, val_loss, saved_models,
                 stats_calls, start_measure, start_idx, val_means>>
  /\ UNCHANGED validated
  /\ UNCHANGED ad_vars

\* lines 330-340: the test statistics and the renaming of the best checkpoint
FinishTest ==
  /\ eb_pc = "test_end"
  /\ stats_calls' = Append(stats_calls,
       [filename |-> "test_summary.csv", current_epoch |-> 0, continue_from_mode |-> FALSE])
  /\ \E path_best \in {FileName("train_model", ToString(best_val_model_idx))} :
       /\ saved_models' = Replace(saved_models, path_best, path_best \o "_best")
       /\ validated' = Replace(validated, path_best, path_best \o "_best")
  /\ eb_pc' = "Done"
  /\ UNCHANGED <<run, args, network, best_val_model_idx, best_val_model_measure, state,
                 starting_epoch, epoch_idx, train_iters, val_loss, test_loss,
                 start_measure, start_idx, val_means, test_passes>>
  /\ UNCHANGED ad_vars

NextEB ==
  \/ \E a \in EBArgs : Construct(a)
  \/ RunExperiment
  \/ TrainIter
  \/ \E loss \in Losses : ValIter(loss)
  \/ EndEpoch
  \/ LoadBest
  \/ \E loss \in Losses : TestIter(loss)
  \/ FinishTest

\* the anomaly detection experiment stays as constructed
InitEB == InitWith(CHOOSE c \in AggConfigs : c.window_aggregation_method = "mean")
            /\ NotConstructed
SpecEB == InitEB /\ [][NextEB]_vars

(***************************************************************************)
(* Reading the histories.                                                  *)
(***************************************************************************)
Splits == {"val", "test"}
Range(f) == {f[i] : i \in DOMAIN f}

\* the image indices delivered in split s, in order
Delivered(s) == [i \in DOMAIN stream[s] |-> stream[s][i].img]
NonDecreasing(s) ==
  \A i, j \in DOMAIN stream[s] : i < j => stream[s][i].img <= stream[s][j].img

\* the finalizations of split s, as positions in the history
FinalizationsIn(s) == {i \in DOMAIN finalized : finalized[i].which_set = s}
\* those whose anomaly map held patches of image k
FinalizationsOf(s, k) ==
  {i \in FinalizationsIn(s) : \E q \in Range(finalized[i].patches) : q.img = k}
IsPatchOf(k, q) == q.img = k
PatchesOf(s, k) == SelectSeq(stream[s], LAMBDA q : IsPatchOf(k, q))
SplitExhausted(s) == \E i \in FinalizationsIn(s) : finalized[i].at = "end"
\* the position in the stream of the first patch of an image greater than k (0: none)
FirstGreater(s, k) ==
  IF \E i \in DOMAIN stream[s] : stream[s][i].img > k
  THEN CHOOSE i \in DOMAIN stream[s] :
         /\ stream[s][i].img > k
         /\ \A j \in 1 .. i - 1 : stream[s][j].img <= k
  ELSE 0

(***************************************************************************)
(* C1 (ordering assertion).  Whenever a patch arrives whose image index is *)
(* smaller than an image index already observed earlier in the split, the  *)
(* run ends in an AssertionError at that patch, and the patch changes      *)
(* neither the anomaly map, nor the coverage map, nor the statistics list. *)
(***************************************************************************)
ObservedEarlier(idx) == \E i \in DOMAIN stream[which_set] : stream[which_set][i].img > idx

C1_DecreasingIndexAborts ==
  [][(pc = "running" /\ stream' # stream /\ ObservedEarlier(current_image_idx'))
       => (/\ pc' = "AssertionError"
           /\ anomaly_map' = anomaly_map
           /\ normalisation_map' = normalisation_map
           /\ stats_dict' = stats_dict)]_vars

(***************************************************************************)
(* C2 (finalized exactly once).  In a split whose image indices are        *)
(* non-decreasing, every image that contributed a patch is finalized       *)
(* exactly once, with all its patches: when the first patch of a greater   *)
(* image arrives, or, for the last image, when the stream is exhausted.    *)
(* No image is finalized twice, none with patches is left unfinalized.     *)
(***************************************************************************)
C2_FinalizedExactlyOnce ==
  \A s \in Splits :
    (pc # "AssertionError" /\ NonDecreasing(s)) =>
      \A k \in Range(Delivered(s)) :
        /\ Cardinality(FinalizationsOf(s, k)) <= 1
        /\ (FirstGreater(s, k) > 0 \/ SplitExhausted(s))
             => Cardinality(FinalizationsOf(s, k)) = 1
        /\ \A i \in FinalizationsOf(s, k) :
             /\ finalized[i].patches = PatchesOf(s, k)
             /\ IF FirstGreater(s, k) > 0
                THEN finalized[i].at = "boundary" /\ finalized[i].delivered = FirstGreater(s, k)
                ELSE finalized[i].at = "end"

(***************************************************************************)
(* C3 (label of the finalized image).  At every finalization the label is  *)
(* fetched with the index of the image whose patches were accumulated in   *)
(* the anomaly map being finalized.                                        *)
(***************************************************************************)
C3_LabelOfAccumulatedImage ==
  \A i \in DOMAIN finalized :
    \A q \in Range(finalized[i].patches) : q.img = finalized[i].fin.label_idx

(***************************************************************************)
(* C10 (statistics rows).  The statistics list holds one record per        *)
(* finalized image of the split, in finalization order, and the row index  *)
(* handed to save_statistics is the index of the image just finalized and  *)
(* the position of its record in the list.                                 *)
(***************************************************************************)
C10_RowIsImageAndPosition ==
  \A i \in DOMAIN finalized :
    /\ finalized[i].row = finalized[i].position
    /\ \A q \in Range(finalized[i].patches) : q.img = finalized[i].row
    /\ stats_rows[i].current_epoch = finalized[i].row
    /\ Len(stats_rows[i].stats_dict) = finalized[i].position + 1
    /\ stats_rows[i].stats_dict[finalized[i].position + 1] = finalized[i].fin.aucroc

(***************************************************************************)
(* The contributions of a list of patches at a pixel, read from the        *)
(* patches themselves (integers: the scores of the windows are integral).  *)
(***************************************************************************)
Covers(q, p) == InSlice(p, current_slice(q))
Covering(patches, p) == SelectSeq(patches, LAMBDA q : Covers(q, p))
Contributions(patches, p) ==
  [i \in DOMAIN Covering(patches, p) |->
     patch_scores(Covering(patches, p)[i])[Local(p, current_slice(Covering(patches, p)[i]))][1]]

RECURSIVE SumInt(_)
SumInt(c) == IF c = <<>> THEN 0 ELSE Head(c) + SumInt(Tail(c))
MinInt(c) == CHOOSE x \in Range(c) : \A y \in Range(c) : x <= y
MaxInt(c) == CHOOSE x \in Range(c) : \A y \in Range(c) : x >= y

\* the finalized (normalised, not yet resized or cropped) map of finalization i
FinalMap(i) == finalized[i].fin.normalised

(***************************************************************************)
(* C4 (mean).  With mean aggregation the finalized score of every pixel    *)
(* is the sum of the scores contributed there by the covering patches      *)
(* divided by their number; a pixel no patch covers is divided by 1 and    *)
(* stays 0.                                                                *)
(***************************************************************************)
C4_MeanIsAverage ==
  cfg.window_aggregation_method = "mean" =>
    \A i \in DOMAIN finalized : \A p \in DOMAIN FinalMap(i).v :
      \E c \in {Contributions(finalized[i].patches, p)} :
        IF c = <<>>
        THEN FinalMap(i).v[p] = Zero
        ELSE /\ FinalMap(i).v[p][2] > 0
             /\ FinalMap(i).v[p][1] * Len(c) = SumInt(c) * FinalMap(i).v[p][2]

\* two different overlapping contributions a, b give (a+b)/2, next to an uncovered pixel
C4_Witness ==
  /\ cfg.window_aggregation_method = "mean"
  /\ \E i \in DOMAIN finalized :
       /\ \E p \in DOMAIN FinalMap(i).v :
            \E c \in {Contributions(finalized[i].patches, p)} :
              /\ Len(c) = 2
              /\ c[1] # c[2]
              /\ FinalMap(i).v[p] = Rat(c[1] + c[2], 2)
       /\ \E p \in DOMAIN FinalMap(i).v : Contributions(finalized[i].patches, p) = <<>>

(***************************************************************************)
(* C5 (min).  With min aggregation the finalized score of every covered    *)
(* pixel is the minimum of the scores contributed there: the zero the map  *)
(* starts with takes no part.  Contributions 5, 2, 8 give 2.               *)
(***************************************************************************)
C5_MinIsMinimum ==
  cfg.window_aggregation_method = "min" =>
    \A i \in DOMAIN finalized : \A p \in DOMAIN FinalMap(i).v :
      \E c \in {Contributions(finalized[i].patches, p)} :
        c # <<>> => FinalMap(i).v[p] = <<MinInt(c), 1>>

\* three contributions in the order of 5, 2, 8 (the least one second): 2, 1, 3 give 1
C5_Witness ==
  /\ cfg.window_aggregation_method = "min"
  /\ \E i \in DOMAIN finalized : \E p \in DOMAIN FinalMap(i).v :
       /\ Contributions(finalized[i].patches, p) = <<2, 1, 3>>
       /\ FinalMap(i).v[p] = <<1, 1>>

C7_PersistedMapIsCropped ==
  cfg.save_anomaly_maps =>
    \A i \in DOMAIN finalized : finalized[i].fin.saved = finalized[i].fin.anomaly_map

(***************************************************************************)
(* C7, amended.  The steps run in the order normalize (mean only), resize  *)
(* to the label size (if on), persist (if on), crop the margin, evaluate:  *)
(* the persisted map is the resized map before the margin crop, of the     *)
(* size of the full label image, and the evaluated map is cut out of it.   *)
(* The accumulators are replaced only at an image boundary: while patches  *)
(* of a split are being processed the coverage map counts the patches      *)
(* added since the last boundary and nothing older.                        *)
(***************************************************************************)
NativeLabel(i) ==
  get_label_image(finalized[i].which_set, cfg.resize_anomaly_maps, finalized[i].fin.label_idx)
MarginOf(axis) == IF cfg.AD_margins = <<>> THEN 0 ELSE cfg.AD_margins[axis]

C7_PersistedBeforeCrop ==
  /\ \A i \in DOMAIN finalized :
       \E f \in {finalized[i].fin} :
         \* resize acts on the normalised map
         /\ IF cfg.resize_anomaly_maps
            THEN /\ f.resized.h = NativeLabel(i).h /\ f.resized.w = NativeLabel(i).w
                 /\ \A p \in DOMAIN f.resized.v :
                      f.resized.v[p] = f.normalised.v[<<(p[1] * f.normalised.h) \div f.resized.h,
                                                        (p[2] * f.normalised.w) \div f.resized.w>>]
            ELSE f.resized = f.normalised
         \* what is persisted is the resized map, uncropped
         /\ cfg.save_anomaly_maps => f.saved = f.resized
         /\ ~cfg.save_anomaly_maps => f.saved = Unbound
         \* what is evaluated is cut out of it afterwards
         /\ \A p \in DOMAIN f.anomaly_map.v :
              f.anomaly_map.v[p] = f.resized.v[<<p[1] + MarginOf(1), p[2] + MarginOf(2)>>]
  /\ (pc = "running" /\ stream[which_set] # <<>>) =>
       \A p \in DOMAIN normalisation_map.v :
         normalisation_map.v[p] = <<Len(Covering(accumulated, p)), 1>>

\* a map was persisted, a margin cropped, at a boundary and at the end of a stream
C7_Witness ==
  /\ cfg.save_anomaly_maps /\ cfg.AD_margins # <<>> /\ cfg.resize_anomaly_maps
  /\ \E i, j \in DOMAIN finalized :
       /\ finalized[i].at = "boundary" /\ finalized[j].at = "end"
       /\ finalized[i].fin.saved.w = finalized[i].fin.anomaly_map.w + 2
       /\ finalized[j].fin.saved.w = finalized[j].fin.anomaly_map.w + 2

(***************************************************************************)
(* C8 (margins).  With AD_margins = (m0, m1) the finalization removes m0   *)
(* rows from each end of the first spatial axis and m1 columns from each   *)
(* end of the second, from the anomaly map and from the label alike: both  *)
(* reach the agreement computation with the shape (H-2*m0, W-2*m1).  With  *)
(* AD_margins = None neither is cropped.                                   *)
(***************************************************************************)
C8_MarginsCropMapAndLabelAlike ==
  \A i \in DOMAIN finalized :
    \E f \in {finalized[i].fin} :
      IF cfg.AD_margins = <<>>
      THEN f.anomaly_map = f.resized /\ f.label_eval = NativeLabel(i)
      ELSE /\ f.anomaly_map.h = f.resized.h - 2 * cfg.AD_margins[1]
           /\ f.anomaly_map.w = f.resized.w - 2 * cfg.AD_margins[2]
           /\ f.label_eval.h = f.anomaly_map.h
           /\ f.label_eval.w = f.anomaly_map.w
           /\ DOMAIN f.anomaly_map.v = Pixels(f.anomaly_map.h, f.anomaly_map.w)
           /\ DOMAIN f.label_eval.v = DOMAIN f.anomaly_map.v
           /\ \A p \in DOMAIN f.anomaly_map.v :
                /\ f.anomaly_map.v[p] =
                     f.resized.v[<<p[1] + cfg.AD_margins[1], p[2] + cfg.AD_margins[2]>>]
                /\ f.label_eval.v[p] =
                     NativeLabel(i).v[<<p[1] + cfg.AD_margins[1], p[2] + cfg.AD_margins[2]>>]

\* a 3 x 3 map cropped to 3 x 1 and a resized 6 x 6 map cropped to 6 x 4
C8_Witness ==
  /\ cfg.AD_margins = <<0, 1>>
  /\ \E i \in DOMAIN finalized :
       /\ finalized[i].fin.resized.h = IF cfg.resize_anomaly_maps THEN 6 ELSE 3
       /\ finalized[i].fin.anomaly_map.h = finalized[i].fin.resized.h
       /\ finalized[i].fin.anomaly_map.w = finalized[i].fin.resized.w - 2
       /\ finalized[i].fin.label_eval.w = finalized[i].fin.resized.w - 2

(***************************************************************************)
(* C9 (undefined agreement).  A finalized image whose label holds a single *)
(* class yields NaN, not an error, and the mean printed for a split is the *)
(* sum of the defined values divided by the number of defined values:      *)
(* undefined entries neither count in the denominator nor count as 0.      *)
(***************************************************************************)
\* a label that holds one class only
SingleClass(label) ==
  \/ \A p \in DOMAIN label.v : label.v[p] = 0
  \/ \A p \in DOMAIN label.v : label.v[p] = 1

\* the agreement records of split s, in finalization order
RECURSIVE RecordsFrom(_, _)
RecordsFrom(s, i) ==
  IF i > Len(finalized) THEN <<>>
  ELSE IF finalized[i].which_set = s
       THEN <<finalized[i].fin.aucroc>> \o RecordsFrom(s, i + 1)
       ELSE RecordsFrom(s, i + 1)
Records(s) == RecordsFrom(s, 1)
DefinedAt(r) == {i \in DOMAIN r : r[i] # NaN}

RECURSIVE SumAt(_, _)
SumAt(r, idxs) ==
  IF idxs = {} THEN Zero
  ELSE LET i == CHOOSE j \in idxs : TRUE
       IN  RatAdd(r[i], SumAt(r, idxs \ {i}))

C9_UndefinedExcludedFromMean ==
  /\ \A i \in DOMAIN finalized :
       (finalized[i].fin.aucroc = NaN) <=> SingleClass(finalized[i].fin.label_eval)
  /\ \A s \in Splits :
       printed_means[s] # <<>> =>
         \E r \in {Records(s)} :
           /\ DefinedAt(r) # {}
           /\ RatMul(printed_means[s][1], <<Cardinality(DefinedAt(r)), 1>>)
                = SumAt(r, DefinedAt(r))

\* records [defined, undefined, defined], as in [0.9, undefined, 0.7]
C9_Witness ==
  /\ printed_means["val"] # <<>>
  /\ \E r \in {Records("val")} :
       /\ Len(r) = 3
       /\ r[1] # NaN /\ r[2] = NaN /\ r[3] # NaN
       /\ r[1] # Zero /\ r[3] # Zero
       /\ printed_means["val"][1] = RatDiv(RatAdd(r[1], r[3]), <<2, 1>>)

(***************************************************************************)
(* C11 (persisted maps).  With save_anomaly_maps on, every finalization    *)
(* writes one map into the directory of the split being processed, under   *)
(* the file name image_list[k] of the image k whose patches were           *)
(* accumulated in the map; with save_anomaly_maps off no map is written.   *)
(***************************************************************************)
C11_OneFilePerFinalizedImage ==
  IF cfg.save_anomaly_maps
  THEN /\ \A i \in DOMAIN finalized :
            /\ finalized[i].fin.saved # Unbound
            /\ \A q \in Range(finalized[i].patches) :
                 /\ finalized[i].fin.file = image_list(finalized[i].which_set)[q.img + 1]
                 /\ \E f \in anomaly_map_files :
                      /\ f.dir = finalized[i].which_set
                      /\ f.file = image_list(finalized[i].which_set)[q.img + 1]
       /\ Cardinality(anomaly_map_files) <= Len(finalized)
  ELSE /\ anomaly_map_files = {}
       /\ \A i \in DOMAIN finalized : finalized[i].fin.saved = Unbound

(***************************************************************************)
(* C12 (end-to-end scenario).  The 3 x 3 image whose three 2 x 2 patches   *)
(* at [0:2,0:2], [0:2,1:3], [1:3,0:2] score 1, 2 and 3 (image 0 of the     *)
(* validation split), aggregated with mean.                                *)
(***************************************************************************)
ScenarioPatches == {[set |-> "val", img |-> 0, slice |-> k] : k \in 1 .. 3}
Scenario(i) ==
  /\ cfg.window_aggregation_method = "mean"
  /\ Len(finalized[i].patches) = 3
  /\ Range(finalized[i].patches) = ScenarioPatches

ScenarioValue(p) ==
  CASE p = <<0, 0>> -> <<1, 1>>
    [] p = <<0, 1>> -> <<3, 2>>
    [] p = <<0, 2>> -> <<2, 1>>
    [] p = <<1, 0>> -> <<2, 1>>
    [] p = <<1, 1>> -> <<2, 1>>
    [] p = <<1, 2>> -> <<2, 1>>
    [] p = <<2, 0>> -> <<3, 1>>
    [] p = <<2, 1>> -> <<3, 1>>
    [] p = <<2, 2>> -> <<0, 1>>
ScenarioMap == Tensor(3, 3, ScenarioValue)

\* C12 as stated: the finalized map is fixed, and cell [1,1] holds the
\* average of the two values contributing there.
C12_OverlapCellAveragesTwo ==
  \A i \in DOMAIN finalized :
    Scenario(i) =>
      /\ FinalMap(i) = ScenarioMap
      /\ \E c \in {Contributions(finalized[i].patches, <<1, 1>>)} :
           /\ Len(c) = 2
           /\ FinalMap(i).v[<<1, 1>>] = Rat(c[1] + c[2], 2)

\* C12, amended.  The finalized map is [[1, 3/2, 2], [2, 2, 2], [3, 3, 0]]
\* whatever the order of the three patches; all three patches cover cell
\* [1,1], which holds the average (1 + 2 + 3) / 3 = 2 of the three values.
C12_OverlapCellAveragesThree ==
  \A i \in DOMAIN finalized :
    Scenario(i) =>
      /\ FinalMap(i) = ScenarioMap
      /\ \E c \in {Contributions(finalized[i].patches, <<1, 1>>)} :
           /\ Len(c) = 3
           /\ Range(c) = {1, 2, 3}
           /\ FinalMap(i).v[<<1, 1>>] = Rat(SumInt(c), 3)

C12_Witness ==
  \E i \in DOMAIN finalized :
    /\ Scenario(i)
    /\ finalized[i].patches = <<[set |-> "val", img |-> 0, slice |-> 1],
                                [set |-> "val", img |-> 0, slice |-> 2],
                                [set |-> "val", img |-> 0, slice |-> 3]>>
    /\ FinalMap(i).v[<<1, 1>>] = <<2, 1>>
    /\ FinalMap(i).v[<<0, 1>>] = <<3, 2>>

(***************************************************************************)
(* Reading the run of the ExperimentBuilder.                               *)
(***************************************************************************)
RECURSIVE RatMinOf(_, _)
\* the minimum of m and the mean losses of the entries of means
RatMinOf(m, means) ==
  IF means = <<>> THEN m ELSE RatMinOf(RatMin(m, Head(means)[2]), Tail(means))

\* the first entry of val_means whose mean loss is m
EarliestWith(m) ==
  CHOOSE i \in DOMAIN val_means :
    /\ val_means[i][2] = m
    /\ \A j \in 1 .. i - 1 : val_means[j][2] # m

\* this step is an execution of __init__
ConstructStep == run' # run
LatestFile == FileName("train_model", "latest")
EpochFile(e) == FileName("train_model", ToString(e))
BestFile(e) == EpochFile(e) \o "_best"

(***************************************************************************)
(* C13 (best epoch).  For both tasks, after the validation phase of each   *)
(* epoch best_val_model_measure is the minimum of its value at the start   *)
(* of the run and the mean validation losses of the epochs run so far, and *)
(* best_val_model_idx is the earliest epoch that attained it (the index    *)
(* the run started with while no epoch has gone below the start value).    *)
(* An epoch whose mean loss is equal to or greater than the best leaves    *)
(* both unchanged, and neither is assigned without the other.              *)
(***************************************************************************)
BestIsMinimum ==
  /\ best_val_model_measure = RatMinOf(start_measure, val_means)
  /\ IF RatLess(best_val_model_measure, start_measure)
     THEN best_val_model_idx = val_means[EarliestWith(best_val_model_measure)][1]
     ELSE best_val_model_idx = start_idx

C14_EpochAndLatestAgree ==
  [][eb_pc = "epoch_end" =>
       /\ Exists(saved_models', EpochFile(epoch_idx))
       /\ Exists(saved_models', LatestFile)
       /\ Read(saved_models', EpochFile(epoch_idx)) = Read(saved_models', LatestFile)
       /\ \E r \in {Read(saved_models', LatestFile)} :
            /\ r.keys = {"network", "current_epoch_idx", "best_val_model_idx",
                         "best_val_model_measure"}
            /\ r.network = network
            /\ r.current_epoch_idx = epoch_idx
            /\ r.best_val_model_idx = best_val_model_idx'
            /\ r.best_val_model_measure = best_val_model_measure']_vars

\* after the second epoch of a run: 'latest' has rolled on from the first
C14_Witness ==
  /\ Len(val_means) = 2
  /\ run = "first"
  /\ Exists(saved_models, EpochFile(0)) /\ Exists(saved_models, EpochFile(1))
  /\ Read(saved_models, LatestFile) = Read(saved_models, EpochFile(1))
  /\ Read(saved_models, LatestFile) # Read(saved_models, EpochFile(0))
  /\ Read(saved_models, LatestFile).network = <<0, 1>>

(***************************************************************************)
(* C15 (test evaluation).  After the last epoch the run loads the          *)
(* parameters of the checkpoint tagged best_val_model_idx, makes exactly   *)
(* one pass over the test set with them, and only afterwards tags that     *)
(* checkpoint '_best'; the '_best' record holds the parameters used.       *)
(***************************************************************************)
TestedWithBest ==
  /\ eb_pc \in {"test", "test_end"} =>
       /\ Exists(saved_models, EpochFile(best_val_model_idx))
       /\ network = Read(saved_models, EpochFile(best_val_model_idx)).network
       /\ \A i \in DOMAIN test_passes : test_passes[i] = network
  /\ eb_pc = "Done" =>
       /\ Len(test_passes) = Len(test_data)
       /\ Exists(saved_models, BestFile(best_val_model_idx))
       /\ \A i \in DOMAIN test_passes :
            test_passes[i] = Read(saved_models, BestFile(best_val_model_idx)).network

\* a '_best' file is written or rewritten by this step
BestTagged ==
  \E e \in 0 .. MaxEpochs :
    /\ Exists(saved_models', BestFile(e))
    /\ ~(Exists(saved_models, BestFile(e))
           /\ Read(saved_models, BestFile(e)) = Read(saved_models', BestFile(e)))

\* C15: load the best checkpoint, one test pass with it, then the '_best' tag
C15_TestPassUsesBest ==
  [][/\ TestedWithBest'
     \* the load of the best checkpoint succeeds
     /\ eb_pc = "load_best" => eb_pc' = "test"
     \* a '_best' file is written only after the pass over the test set
     /\ BestTagged => eb_pc = "test_end" /\ Len(test_passes) = Len(test_data)]_vars

(***************************************************************************)
(* C16 (files of a completed run).  When run_experiment has completed the  *)
(* store holds a record under every epoch index that was run, 'latest',    *)
(* and a '_best' copy of the best epoch's record, the record under the     *)
(* best epoch's own index still being there.                               *)
(***************************************************************************)
C16_AllEpochFilesKept ==
  eb_pc = "Done" =>
    /\ \A i \in DOMAIN val_means : Exists(saved_models, EpochFile(val_means[i][1]))
    /\ Exists(saved_models, LatestFile)
    /\ Exists(saved_models, BestFile(best_val_model_idx))
    /\ Exists(saved_models, EpochFile(best_val_model_idx))
    /\ Read(saved_models, EpochFile(best_val_model_idx))
         = Read(saved_models, BestFile(best_val_model_idx))

(***************************************************************************)
(* C17 (round trip).  save_model under a tag followed by load_model of     *)
(* that tag returns the best_val_model_idx and best_val_model_measure that *)
(* were saved, a state with the same current_epoch_idx, and leaves in the  *)
(* model the parameters that were saved.                                   *)
(***************************************************************************)
RoundTripTags == {ToString(e) : e \in 0 .. MaxEpochs} \cup {"latest"}

\* C17: save_model then load_model of the same tag gives back what was saved
C17_SaveLoadRoundTrip ==
  "best_val_model_idx" \in state.keys =>
    \A tag \in RoundTripTags :
      \E files \in {save_model(saved_models, "train_model", tag, state, network)} :
        \E r \in {load_model(files, "train_model", tag, <<>>)} :
          /\ r.best_val_model_idx = state.best_val_model_idx
          /\ r.best_val_model_measure = state.best_val_model_measure
          /\ r.state.current_epoch_idx = state.current_epoch_idx
          /\ r.network = network
          /\ r.state.network = network
          /\ \A f \in saved_models :
               f.name # FileName("train_model", tag) => f \in files

\* a run resumed from the checkpoint of epoch 1: what __init__ loaded is what
\* the run before it saved (best measure 3/2, parameters trained in epochs 0, 1)
C17_Witness ==
  /\ run = "resumed" /\ eb_pc = "NotStarted"
  /\ args.continue_from_epoch = 1
  /\ starting_epoch = 1
  /\ state.current_epoch_idx = 1
  /\ best_val_model_idx = 0
  /\ best_val_model_measure = <<3, 2>>
  /\ network = <<0, 1>>

(***************************************************************************)
(* C18 (resume-latest without a checkpoint).  Constructed with             *)
(* continue_from_epoch = -2 when no 'latest' checkpoint exists, the        *)
(* builder starts a fresh run: starting_epoch = 0, an empty state,         *)
(* best_val_model_idx = 0 and best_val_model_measure at its initial value. *)
(***************************************************************************)
C18_MissingLatestStartsFresh ==
  [][(ConstructStep /\ args'.continue_from_epoch = 0 - 2
        /\ ~Exists(saved_models, LatestFile)) =>
       /\ eb_pc' = "NotStarted"
       /\ starting_epoch' = 0
       /\ state' = EmptyDict
       /\ best_val_model_idx' = 0
       /\ best_val_model_measure' = <<InitialMeasure, 1>>
       /\ network' = <<>>]_vars

\* such a run, two epochs on
C18_Witness ==
  /\ args.continue_from_epoch = 0 - 2
  /\ starting_epoch = 0
  /\ start_measure = <<InitialMeasure, 1>>
  /\ Len(val_means) = 2
  /\ val_means[1][1] = 0
  /\ \A f \in saved_models : f.content.network # <<>> /\ f.content.network[1] = 0
  /\ run = "first"

(***************************************************************************)
(* C19 (resume from a missing epoch).  Constructed with an explicit        *)
(* continue_from_epoch = N whose checkpoint does not exist, __init__ ends  *)
(* in the load error: no epoch is run, and no checkpoint and no statistics *)
(* are written.                                                            *)
(***************************************************************************)
C19_MissingEpochIsFatal ==
  [][/\ (ConstructStep /\ args'.continue_from_epoch \in 0 .. MaxEpochs
           /\ ~Exists(saved_models, EpochFile(args'.continue_from_epoch))) =>
          /\ eb_pc' = "FileNotFoundError in __init__"
          /\ saved_models' = saved_models
          /\ stats_calls' = <<>>
     /\ eb_pc = "FileNotFoundError in __init__" =>
          /\ ConstructStep
          /\ val_means = <<>> /\ stats_calls = <<>> /\ test_passes = <<>>]_vars

\* the checkpoint asked for is missing among others that are there
C19_Witness ==
  /\ eb_pc = "FileNotFoundError in __init__"
  /\ saved_models # {}
  /\ Exists(saved_models, LatestFile)
  /\ ~Exists(saved_models, EpochFile(args.continue_from_epoch))

(***************************************************************************)
(* C20 (configuration errors).  An unsupported task / loss combination     *)
(* (likewise an unknown aggregation method or anomaly-score definition)    *)
(* is reported as a fatal configuration error before any computation: no   *)
(* batch is passed through the model.                                      *)
(***************************************************************************)
C20_ConfigErrorBeforeComputation ==
  (run # "none" /\ ~LossBound(args)) =>
    /\ eb_pc = "ConfigurationError in __init__"
    \* the error forward_prop_and_loss ends in after self.model.forward(x)
    /\ eb_pc # "UnboundLocalError"

(***************************************************************************)
(* C21 (phases of a run).  A run goes NotStarted -> (training ->           *)
(* validation) for each epoch from starting_epoch to num_epochs - 1 in     *)
(* increasing order -> test evaluation -> Done, unless an exception ends   *)
(* it.  All training batches of an epoch come before its validation        *)
(* batches; the best-epoch update and the checkpoint writes of an epoch    *)
(* come after its validation and before the next epoch's training; the     *)
(* test evaluation does not start before the last epoch's checkpoint is    *)
(* written.                                                                *)
(***************************************************************************)
Exceptions ==
  {"FileNotFoundError in __init__", "FileNotFoundError in run_experiment",
   "UnboundLocalError"}

C21_PhaseOrder ==
  [][~ConstructStep =>
       /\ eb_pc = "NotStarted" =>
            \/ eb_pc' = "train" /\ epoch_idx' = starting_epoch
                 /\ starting_epoch < args.num_epochs
            \/ eb_pc' = "load_best" /\ starting_epoch >= args.num_epochs
       /\ eb_pc = "train" =>
            /\ eb_pc' \in {"train", "val", "UnboundLocalError"}
            /\ val_loss = <<>>
            /\ eb_pc' = "val" => train_iters' = Len(train_data)
       /\ eb_pc = "val" =>
            /\ eb_pc' \in {"val", "epoch_end", "UnboundLocalError"}
            /\ train_iters' = Len(train_data) /\ network' = network
            /\ eb_pc' = "epoch_end" => Len(val_loss') = Len(val_data)
       /\ eb_pc = "epoch_end" =>
            /\ Len(val_loss) = Len(val_data)
            /\ \/ eb_pc' = "train" /\ epoch_idx' = epoch_idx + 1
                    /\ epoch_idx' < args.num_epochs /\ train_iters' = 0
               \/ eb_pc' = "load_best" /\ epoch_idx = args.num_epochs - 1
            /\ Exists(saved_models', EpochFile(epoch_idx))
       /\ (\/ best_val_model_idx' # best_val_model_idx
           \/ best_val_model_measure' # best_val_model_measure
           \/ val_means' # val_means) => eb_pc = "epoch_end"
       /\ saved_models' # saved_models => eb_pc \in {"epoch_end", "test_end"}
       /\ eb_pc = "load_best" =>
            /\ eb_pc' \in {"test", "FileNotFoundError in run_experiment"}
            /\ val_means # <<>> =>
                 /\ val_means[Len(val_means)][1] = args.num_epochs - 1
                 /\ Exists(saved_models, EpochFile(args.num_epochs - 1))
                 /\ Read(saved_models, LatestFile).current_epoch_idx = args.num_epochs - 1
       /\ test_passes' # test_passes => eb_pc = "test"
       /\ eb_pc = "test" => eb_pc' \in {"test", "test_end", "UnboundLocalError"}
       /\ eb_pc = "test_end" => eb_pc' = "Done"
       /\ eb_pc \notin ({"Done"} \cup Exceptions)
       /\ \A i \in DOMAIN val_means' : val_means'[i][1] = starting_epoch + i - 1]_vars

\* a fresh run of two epochs that has gone all the way
C21_Witness ==
  /\ eb_pc = "Done" /\ run = "first"
  /\ starting_epoch = 0 /\ args.num_epochs = 2
  /\ Len(val_means) = 2 /\ val_means[1][1] = 0 /\ val_means[2][1] = 1
  /\ Len(test_passes) = Len(test_data)

(***************************************************************************)
(* C22 (coverage map).  During the accumulation of one image every entry   *)
(* of the coverage map is a non-negative integer that never decreases,     *)
(* and after each patch it is the number of patches of the current image   *)
(* processed so far whose slice contains the pixel; for all three methods. *)
(***************************************************************************)
\* this step processed a patch that passed the assertion
PatchAccepted == stream' # stream /\ pc' = "running"

C22_CoverageCountsPatchesOfImage ==
  [][PatchAccepted =>
       /\ \A p \in DOMAIN normalisation_map'.v :
            normalisation_map'.v[p] =
              <<Len(Covering(SelectSeq(stream'[which_set],
                                       LAMBDA q : IsPatchOf(current_image_idx', q)), p)), 1>>
       /\ (stream[which_set] # <<>> /\ current_image_idx' = current_image_idx) =>
            \A p \in DOMAIN normalisation_map'.v :
              ~RatLess(normalisation_map'.v[p], normalisation_map.v[p])]_vars

(***************************************************************************)
(* C23 (frame of a patch update).  For all three methods a pixel of a      *)
(* finalized (pre-resize, pre-crop) map that lies in no patch's slice is   *)
(* 0, and a patch update changes no pixel of the score map or of the       *)
(* coverage map outside the patch's slice.                                 *)
(***************************************************************************)
C23_NothingOutsideTheSlice ==
  [][/\ \A i \in DOMAIN finalized' : \A p \in DOMAIN FinalMap(i)'.v :
          Covering(finalized'[i].patches, p) = <<>> => FinalMap(i)'.v[p] = Zero
     /\ PatchAccepted =>
          \E q \in {stream'[which_set][Len(stream'[which_set])]} :
            \A p \in DOMAIN anomaly_map'.v :
              ~Covers(q, p) =>
                IF accumulated' = <<q>>
                THEN anomaly_map'.v[p] = Zero /\ normalisation_map'.v[p] = Zero
                ELSE /\ anomaly_map'.v[p] = anomaly_map.v[p]
                     /\ normalisation_map'.v[p] = normalisation_map.v[p]]_vars

\* a third patch was added to a map that keeps a non-zero pixel outside its slice
C23_Witness ==
  /\ Len(accumulated) = 3
  /\ \E p \in DOMAIN anomaly_map.v :
       /\ ~Covers(accumulated[3], p)
       /\ anomaly_map.v[p] # Zero
  /\ \E p \in DOMAIN anomaly_map.v : Covering(accumulated, p) = <<>>

(***************************************************************************)
(* C24 (isolation).  The accumulators are isolated per image and per       *)
(* split: the first patch of a new image is applied to fresh zero maps of  *)
(* that image's size, so a finalized map holds patches of one image only;  *)
(* and at the start of a split the statistics list and                     *)
(* num_finished_images are reset, so nothing of the val split shows in     *)
(* the results of the test split.                                          *)
(***************************************************************************)
C24_AccumulatorsIsolated ==
  /\ \A i \in DOMAIN finalized :
       \A q1, q2 \in Range(finalized[i].patches) :
         q1.img = q2.img /\ q1.set = finalized[i].which_set /\ q2.set = q1.set
  /\ \A q1, q2 \in Range(accumulated) : q1.img = q2.img /\ q1.set = q2.set
  /\ (which_set = "test" /\ stream["test"] = <<>> /\ pc = "running") =>
       stats_dict = <<>> /\ num_finished_images = 0 - 1
  /\ which_set = "test" => stats_dict = Records("test")

(***************************************************************************)
(* C26 (the counter is the image index).  For every stream the assertion   *)
(* accepts, after each patch num_finished_images is the image index of     *)
(* that patch, so the new-image branch is taken once per image, on its     *)
(* first patch.                                                            *)
(***************************************************************************)
C26_CounterIsImageIndex ==
  (pc = "running" /\ stream[which_set] # <<>>) =>
    /\ num_finished_images = current_image_idx
    /\ accumulated = PatchesOf(which_set, current_image_idx)

(***************************************************************************)
(* C28 (order of the patches).  For each method the finalized map of an    *)
(* image does not depend on the order in which its patches were            *)
(* delivered: it is the map the same patches give in the order of their    *)
(* placements.                                                             *)
(***************************************************************************)
RECURSIVE Aggregate(_, _, _, _)
\* the accumulators after the patches, applied in the order given to am and nm
Aggregate(method, am, nm, patches) ==
  IF patches = <<>> THEN [am |-> am, nm |-> nm]
  ELSE LET nm1 == UpdateNormalisationMap(nm, current_slice(Head(patches)))
       IN  Aggregate(method,
                     UpdateAnomalyMap(method, am, nm1, current_slice(Head(patches)),
                                      patch_scores(Head(patches))),
                     nm1, Tail(patches))

HasSlice(k, q) == q.slice = k
RECURSIVE InPlacementOrder(_, _)
\* the patches sorted by placement, from placement k on
InPlacementOrder(patches, k) ==
  IF k > Len(Slices) THEN <<>>
  ELSE SelectSeq(patches, LAMBDA q : HasSlice(k, q)) \o InPlacementOrder(patches, k + 1)

C28_OrderOfPatchesIrrelevant ==
  \A i \in DOMAIN finalized :
    \E r \in {Aggregate(cfg.window_aggregation_method,
                        zeros(FinalMap(i).h, FinalMap(i).w), zeros(FinalMap(i).h, FinalMap(i).w),
                        InPlacementOrder(finalized[i].patches, 1))} :
      FinalMap(i) = IF cfg.window_aggregation_method = "mean"
                    THEN normalise_anomaly_map(r.am, r.nm) ELSE r.am

\* three overlapping patches delivered in the order of placements 3, 1, 2
C28_Witness ==
  \E i \in DOMAIN finalized :
    /\ Len(finalized[i].patches) = 3
    /\ finalized[i].patches[1].slice = 3
    /\ finalized[i].patches[2].slice = 1
    /\ finalized[i].patches[3].slice = 2
    /\ cfg.window_aggregation_method = "max"

(***************************************************************************)
(* C29 (termination).  A run over a finite stream ends normally, whatever  *)
(* the labels are, also when every finalized image of a split has an       *)
(* undefined agreement value; the only abnormal ending is the failure of   *)
(* the ordering assertion.                                                 *)
(***************************************************************************)
C29_EndsNormally == pc \in {"running", "done", "AssertionError"}

(***************************************************************************)
(* C27 (the best checkpoint is the best).  At every epoch boundary the     *)
(* checkpoint stored under the tag best_val_model_idx holds the parameters *)
(* whose mean validation loss is best_val_model_measure; in fresh runs and *)
(* in runs resumed from an epoch N, which train epoch N again and          *)
(* overwrite its checkpoint.                                               *)
(***************************************************************************)
C27_BestCheckpointHoldsBest ==
  [][eb_pc = "epoch_end" =>
       /\ Exists(saved_models', EpochFile(best_val_model_idx'))
       /\ Exists(validated', EpochFile(best_val_model_idx'))
       /\ Read(validated', EpochFile(best_val_model_idx')) = best_val_model_measure']_vars

(***************************************************************************)
(* C30 (nothing listed for val).  When the image list of the val split is  *)
(* empty, run_experiment returns at once: no patch of either split is      *)
(* processed, nothing is finalized, no anomaly map and no statistics row   *)
(* is written and no mean is printed, and the test split is never entered, *)
(* also when the test image list is not empty.                             *)
(***************************************************************************)
C30_EmptyValListReturns ==
  cfg.image_list["val"] = <<>> =>
    /\ pc \in {"NotStarted", "done"}
    /\ which_set = "val"
    /\ \A s \in Splits : stream[s] = <<>> /\ printed_means[s] = <<>>
    /\ finalized = <<>>
    /\ accumulated = <<>>
    /\ anomaly_map = Unbound /\ normalisation_map = Unbound
    /\ anomaly_map_files = {}
    /\ stats_rows = <<>>
    /\ stats_dict = <<>>

C30_Witness ==
  /\ pc = "done"
  /\ cfg.image_list["val"] = <<>>
  /\ cfg.image_list["test"] # <<>>

(***************************************************************************)
(* C25 (batching is irrelevant).  The finalized maps, the fetched labels   *)
(* and the agreement records of a split are those of handling the split's  *)
(* flat patch sequence one patch at a time, however the loader cut it into *)
(* batches: also when a batch holds the end of one image and the start of  *)
(* the next, and when the last batch is smaller.  The same goes for the    *)
(* accumulators and the counter between two patches and for the ordering   *)
(* assertion.                                                              *)
(***************************************************************************)
BeforeFirstPatch ==
  [failed |-> FALSE, n |-> 0 - 1, cur |-> 0 - 1, am |-> Unbound, nm |-> Unbound, out |-> <<>>]

\* the patch handled alone, from the state st left by the patches before it
OnePatch(c, which, st, patch) ==
  IF st.failed \/ ~(st.n <= patch.img)
  THEN [st EXCEPT !.failed = TRUE, !.cur = patch.img]
  ELSE LET new_image == patch.img > st.n
           size == image_sizes(which)[patch.img + 1]
           am0 == IF new_image THEN zeros(size[2], size[3]) ELSE st.am
           nm0 == IF new_image THEN zeros(size[2], size[3]) ELSE st.nm
           nm1 == UpdateNormalisationMap(nm0, current_slice(patch))
       IN  [failed |-> FALSE,
            n |-> IF new_image THEN st.n + 1 ELSE st.n,
            cur |-> patch.img,
            am |-> UpdateAnomalyMap(c.window_aggregation_method, am0, nm1,
                                    current_slice(patch), patch_scores(patch)),
            nm |-> nm1,
            out |-> IF new_image /\ st.n + 1 > 0
                    THEN Append(st.out, FinalizeImage(c, which, st.am, st.nm, patch.img - 1))
                    ELSE st.out]

RECURSIVE OneByOne(_, _, _, _)
OneByOne(c, which, st, patches) ==
  IF patches = <<>> THEN st
  ELSE OneByOne(c, which, OnePatch(c, which, st, Head(patches)), Tail(patches))

IsOfSplit(s, f) == f.which_set = s
FinsOf(s) ==
  LET fs == SelectSeq(finalized, LAMBDA f : IsOfSplit(s, f))
  IN  [i \in DOMAIN fs |-> fs[i].fin]

C25_BatchingIrrelevant ==
  \A s \in Splits :
    \E st \in {OneByOne(cfg, s, BeforeFirstPatch, stream[s])} :
      /\ FinsOf(s) = IF SplitExhausted(s)
                     THEN Append(st.out, FinalizeImage(cfg, s, st.am, st.nm, st.cur))
                     ELSE st.out
      /\ st.failed <=> (s = which_set /\ pc = "AssertionError")
      /\ (s = which_set /\ pc = "running" /\ stream[s] # <<>>) =>
           /\ anomaly_map = st.am
           /\ normalisation_map = st.nm
           /\ num_finished_images = st.n
           /\ current_image_idx = st.cur
           /\ stats_dict = [i \in DOMAIN st.out |-> st.out[i].aucroc]

C25_Witness ==
  /\ SplitExhausted("val")
  /\ batches["val"] = <<2, 1>>
  /\ Delivered("val") = <<0, 1, 1>>
  /\ Len(FinsOf("val")) = 2

====
